---- MODULE Spec2Model ----
(***************************************************************************)
(* AMOS predictive-maintenance pipeline: the history buffer                *)
(* (src/storage/buffer.py), the maintenance policy                         *)
(* (src/models/optimization_model.py) and the realtime orchestrator        *)
(* (src/pipeline/realtime_loop.py).                                        *)
(*                                                                         *)
(* Units.  The source computes on floats; the model keeps every quantity   *)
(* as an integer multiple of a fixed unit so that each comparison of the   *)
(* source is an integer comparison with the same outcome:                  *)
(*   failure probability   hundredths        (0.35 is 35, 0.7 is 70)       *)
(*   anomaly score         hundredths        (0.6 is 60, 0.95 is 95)       *)
(*   RUL, delays, times    minutes                                         *)
(*   expected cost         hundredths of $   (a $ amount times 100)        *)
(*   confidence            1/3000            (1.0 is 3000)                 *)
(***************************************************************************)
EXTENDS Integers, Sequences, FiniteSets

VARIABLES
    maxlen,     \* InMemoryBuffer: the deque's maxlen (constructor argument)
    buffer,     \* InMemoryBuffer._data, oldest first
    appended,   \* history: every item handed to InMemoryBuffer.append by the buffer driver
    args,       \* the arguments of the last call (of optimize_maintenance_decision
                \* or of process_row): <<>> or <<record>>
    decision,   \* what that call returned: <<>> (not yet called) or <<MaintenanceDecision>>
    out,        \* what the last process_row returned: <<>> or <<RealtimeOutput>>
    latest_result,  \* what the last InMemoryBuffer.latest returned: <<>> or <<list>>
    pc,             \* run_forever: "idle" (not running), "next" (about to pull from the
                    \* stream), the step of the process_row call in flight,
                    \* "process_row_raised", "raised" or "done"
    loop_forever,   \* StreamSimulator.loop_forever
    stream_pos,     \* StreamSimulator.__iter__: rows of self.df yielded in this pass
    enumerate_count,    \* enumerate(stream): the index the next observation gets
    frame,          \* the locals of the process_row call in flight (<<>> before the first)
    error,          \* <<>> or <<the step whose call raised>>
    entry_buffer,   \* history: the buffer as it was when the call in flight began
    pulled,         \* history: the positions in self.df of the observations pulled
    processed,       \* history: position and index of every observation process_row returned for
    clock,    \* the wall clock, what datetime.now() reads
    decisions,    \* history: what repeated calls of optimize_maintenance_decision returned, each with the clock reading of its call
    feature_view,    \* what build_single_row_feature_df returned for the row in args: <<>> or <<X>>
    iter_df,    \* StreamSimulator.df of the iterator under study, a sequence of rows
    yielded,    \* history: the rows the iterator has yielded, in order
    exhausted,    \* the iterator has ended (StopIteration)
    threads,    \* concurrent callers of process_row: for each, where it is, its call count and its record
    effects,    \* history: the records in the order their buffer appends took effect
    completed,    \* history: the records of the process_row calls that returned
    session_state,    \* the dashboard's st.session_state (<<>> when no dashboard runs)
    batch_calls,    \* history: the process_batch calls of the latest page run, in order
    pushed,   \* history: the streaming index of every row process_batch pushed through the pipeline
    rendered  \* the row_index of every "Mark as fixed" button the last page run rendered

runvars ==
    <<pc, loop_forever, stream_pos, enumerate_count, frame, error, entry_buffer,
      pulled, processed>>

vars ==
    <<maxlen, buffer, appended, args, decision, out, latest_result, pc, loop_forever,
      stream_pos, enumerate_count, frame, error, entry_buffer, pulled, processed,
      clock, decisions,
      feature_view,
      iter_df, yielded, exhausted,
      threads, effects, completed,
      session_state, batch_calls, pushed, rendered>>

dashvars == <<session_state, batch_calls, pushed, rendered>>

threadvars == <<threads, effects, completed>>

itervars == <<iter_df, yielded, exhausted>>

featurevars == <<feature_view>>

repeatvars == <<clock, decisions>>

Min(a, b) == IF a < b THEN a ELSE b
Max(a, b) == IF a > b THEN a ELSE b

None == <<>>
Some(x) == <<x>>

(***************************************************************************)
(* Bounds of the model.                                                    *)
(***************************************************************************)
MaxCapacity == 3        \* buffer driver: capacities 0..MaxCapacity
MaxAppends == 5         \* buffer driver: at most this many appends
MaxItem == 2            \* buffer driver: items 1..MaxItem
MaxRulSteps == 25       \* policy inputs: RUL up to 5 * MaxRulSteps minutes
MaxNegRulSteps == 2     \* policy inputs: RUL down to -5 * MaxNegRulSteps minutes
MaxScoreSteps == 6      \* policy inputs: anomaly score up to 0.2 * MaxScoreSteps
MaxNegScoreSteps == 1   \* policy inputs: anomaly score down to -0.2 * MaxNegScoreSteps
MaxTime == 1            \* policy inputs: current_time in 0..MaxTime (minutes)
BufferMaxlen == 2       \* the pipeline's buffer capacity (BUFFER_MAXLEN, scaled down)
MaxPulls == 4           \* run_forever: at most this many observations are pulled
MaxFieldValue == 2      \* observations: every field holds a value in 1..MaxFieldValue
MaxRows == 3            \* iterator: datasets of 0..MaxRows rows
MaxYields == 5          \* iterator: at most this many rows are yielded
MaxThreadCalls == 2     \* concurrent callers: each makes at most this many calls
MaxBatchSize == 2       \* dashboard: the slider "Rows per update" offers 1..MaxBatchSize
MaxStreamRows == 4      \* dashboard: stream_df has 0..MaxStreamRows rows
MaxClock == 2           \* repeated policy calls: the wall clock reads 0..MaxClock
MaxCalls == 2           \* repeated policy calls: at most this many calls

(***************************************************************************)
(* src/config.py                                                           *)
(***************************************************************************)
FAILURE_PROBA_THRESHOLD == 35
ANOMALY_SCORE_THRESHOLD == 60
MAINTENANCE_COST == 500
FAILURE_COST == 5000
DOWNTIME_COST_PER_HOUR == 1000
RUL_SAFETY_MARGIN == 20

(***************************************************************************)
(* src/storage/buffer.py: InMemoryBuffer over collections.deque(maxlen=n). *)
(* A full deque drops its leftmost item on append; a deque of maxlen 0     *)
(* keeps nothing.                                                          *)
(***************************************************************************)
\* Faulty variant: a full buffer refuses the new item instead of evicting the oldest.
append_drop_newest(data, n, item) ==
    IF Len(data) >= n THEN data ELSE Append(data, item)

append(data, n, item) ==
    IF n = 0 THEN data
    ELSE IF Len(data) = n THEN Append(Tail(data), item)
    ELSE Append(data, item)

\* Faulty variant of latest: without the guard, the slice [-n:] alone (for
\* n = 0 it is the whole list, for n < 0 the list without its first -n items).
latest_unguarded(data, n) ==
    IF n <= 0 THEN SubSeq(data, 1 - n, Len(data))
    ELSE SubSeq(data, Max(Len(data) - n + 1, 1), Len(data))

latest(data, n) ==
    IF n <= 0 THEN <<>>
    ELSE SubSeq(data, Max(Len(data) - n + 1, 1), Len(data))

all(data) == SubSeq(data, 1, Len(data))

size(data) == Len(data)

(***************************************************************************)
(* src/models/optimization_model.py                                        *)
(***************************************************************************)
MaintenanceAction ==
    {"critical_immediate", "schedule_urgent", "schedule_soon",
     "monitor", "investigate", "normal"}

FailureModes == {"NORMAL", "TWF", "HDF", "PWF", "OSF", "RNF"}

\* compute_expected_cost: the cost, in hundredths of $, of following `action`.

\* Faulty variant: the downtime cost is subtracted.
compute_expected_cost_sign_slip(failure_proba, rul_estimate, action) ==
    IF action = "critical_immediate"
        THEN 100 * MAINTENANCE_COST - 200 * DOWNTIME_COST_PER_HOUR
    ELSE IF action = "schedule_urgent"
        THEN 100 * MAINTENANCE_COST - 150 * DOWNTIME_COST_PER_HOUR
    ELSE IF action = "schedule_soon"
        THEN 100 * MAINTENANCE_COST - 100 * DOWNTIME_COST_PER_HOUR
    ELSE IF action \in {"monitor", "normal"}
        THEN failure_proba * FAILURE_COST
    ELSE IF action = "investigate"
        THEN 10000
    ELSE 0

\* Faulty variant: the urgent downtime grows with the RUL.
compute_expected_cost_rul_downtime(failure_proba, rul_estimate, action) ==
    IF action = "critical_immediate"
        THEN 100 * MAINTENANCE_COST + 200 * DOWNTIME_COST_PER_HOUR
    ELSE IF action = "schedule_urgent"
        THEN 100 * MAINTENANCE_COST + (100 + rul_estimate) * DOWNTIME_COST_PER_HOUR
    ELSE IF action = "schedule_soon"
        THEN 100 * MAINTENANCE_COST + 100 * DOWNTIME_COST_PER_HOUR
    ELSE IF action \in {"monitor", "normal"}
        THEN failure_proba * FAILURE_COST
    ELSE IF action = "investigate"
        THEN 10000
    ELSE 0

compute_expected_cost(failure_proba, rul_estimate, action) ==
    IF action = "critical_immediate"
        THEN 100 * MAINTENANCE_COST + 200 * DOWNTIME_COST_PER_HOUR  \* downtime_hours = 2.0
    ELSE IF action = "schedule_urgent"
        THEN 100 * MAINTENANCE_COST + 150 * DOWNTIME_COST_PER_HOUR  \* downtime_hours = 1.5
    ELSE IF action = "schedule_soon"
        THEN 100 * MAINTENANCE_COST + 100 * DOWNTIME_COST_PER_HOUR  \* downtime_hours = 1.0
    ELSE IF action \in {"monitor", "normal"}
        THEN failure_proba * FAILURE_COST       \* hundredths times $ is hundredths of $
    ELSE IF action = "investigate"
        THEN 10000                              \* 100.0 $
    ELSE 0

\* The conditions of the if/elif chain of optimize_maintenance_decision.
Rule1(anomaly_flag, failure_mode) == anomaly_flag /\ failure_mode = "NORMAL"

\* Faulty variant: critical needs both conditions.
Rule2_both(failure_probability, rul_estimate) ==
    failure_probability > 70 /\ rul_estimate < 30

Rule2(failure_probability, rul_estimate) ==
    failure_probability > 70 \/ rul_estimate < 30

\* Faulty variant: probability 0.50 itself is urgent.
Rule3_inclusive(failure_probability, rul_estimate) ==
    failure_probability >= 50 /\ rul_estimate < 60

Rule3(failure_probability, rul_estimate) ==
    failure_probability > 50 /\ rul_estimate < 60

\* Faulty variant: the RUL limit of rule 4 is 60.
Rule4_rul60(failure_probability, rul_estimate) ==
    failure_probability > FAILURE_PROBA_THRESHOLD /\ rul_estimate < 60

Rule4(failure_probability, rul_estimate) ==
    failure_probability > FAILURE_PROBA_THRESHOLD /\ rul_estimate < 120

\* Faulty variant: the threshold itself is monitored.
Rule5_inclusive(failure_probability) ==
    failure_probability >= FAILURE_PROBA_THRESHOLD

Rule5(failure_probability) == failure_probability > FAILURE_PROBA_THRESHOLD

\* Faulty variant: the RUL limit of rule 6 is 30.
Rule6_rul30(rul_estimate) == rul_estimate < 30

Rule6(rul_estimate) == rul_estimate < 60

\* The if/elif chain itself: the number of the first rule that matches.
\* Faulty variant: the chain in the order of the priority ranks (critical and urgent
\* before the anomaly rule).
decision_rule_critical_first(failure_probability, failure_mode, rul_estimate, anomaly_flag) ==
    IF Rule2(failure_probability, rul_estimate) THEN 2
    ELSE IF Rule3(failure_probability, rul_estimate) THEN 3
    ELSE IF Rule1(anomaly_flag, failure_mode) THEN 1
    ELSE IF Rule4(failure_probability, rul_estimate) THEN 4
    ELSE IF Rule5(failure_probability) THEN 5
    ELSE IF Rule6(rul_estimate) THEN 6
    ELSE 7

decision_rule(failure_probability, failure_mode, rul_estimate, anomaly_flag) ==
    IF Rule1(anomaly_flag, failure_mode) THEN 1
    ELSE IF Rule2(failure_probability, rul_estimate) THEN 2
    ELSE IF Rule3(failure_probability, rul_estimate) THEN 3
    ELSE IF Rule4(failure_probability, rul_estimate) THEN 4
    ELSE IF Rule5(failure_probability) THEN 5
    ELSE IF Rule6(rul_estimate) THEN 6
    ELSE 7

\* timedelta(hours=h), in minutes.
\* Faulty variant: the hours are taken for minutes.
timedelta_hours_as_minutes(h) == h

timedelta_hours(h) == 60 * h

\* schedule_delay_minutes of the urgent rule, of the probability-based
\* schedule-soon rule and of the low-RUL rule.
\* Faulty variant: min and max exchanged, which pins the delay to 30.
schedule_delay_urgent_swapped(rul_estimate) ==
    Min(Max(rul_estimate - RUL_SAFETY_MARGIN, 240), 30)

schedule_delay_urgent(rul_estimate) ==
    Max(Min(rul_estimate - RUL_SAFETY_MARGIN, 240), 30)

schedule_delay_soon(rul_estimate) == Max(rul_estimate - RUL_SAFETY_MARGIN, 60)

schedule_delay_low_rul(rul_estimate) == Max(rul_estimate - RUL_SAFETY_MARGIN, 30)

\* `if current_time is None: current_time = datetime.now()`: the time the
\* decision is made for, `now` being what the wall clock reads.
\* Faulty variant: the clock is read whether or not current_time is given.
resolve_current_time_reads_clock(current_time, now) == now

resolve_current_time(current_time, now) ==
    IF current_time = None THEN now ELSE current_time[1]

\* current_time is always given here: a call without it reads datetime.now(),
\* which is one more value of the same argument.
optimize_maintenance_decision(failure_probability, failure_mode, rul_estimate, anomaly_score, anomaly_flag, current_time) ==
    LET rule == decision_rule(failure_probability, failure_mode, rul_estimate, anomaly_flag)
        action ==
            CASE rule = 1 -> "investigate"
              [] rule = 2 -> "critical_immediate"
              [] rule = 3 -> "schedule_urgent"
              [] rule = 4 -> "schedule_soon"
              [] rule = 5 -> "monitor"
              [] rule = 6 -> "schedule_soon"
              [] rule = 7 -> "normal"
        confidence ==
            CASE rule = 1 -> Min(30 * anomaly_score, 2850)
              [] rule = 2 -> Max(30 * failure_probability, 3000 - 100 * rul_estimate)
              [] rule = 3 -> 27 * failure_probability
              [] rule = 4 -> 24 * failure_probability
              [] rule = 5 -> 2100
              [] rule = 6 -> 1800
              [] rule = 7 -> 3000 - 30 * failure_probability
        reasoning ==
            CASE rule = 1 -> "Anomaly detected"
              [] rule = 2 -> "CRITICAL"
              [] rule = 3 -> "URGENT"
              [] rule = 4 -> "WARNING"
              [] rule = 5 -> "MONITOR"
              [] rule = 6 -> "Low RUL"
              [] rule = 7 -> "Normal operation"
        scheduled_time ==
            CASE rule = 1 -> Some(current_time + timedelta_hours(2))
              [] rule = 2 -> Some(current_time)
              [] rule = 3 -> Some(current_time + schedule_delay_urgent(rul_estimate))
              [] rule = 4 -> Some(current_time + schedule_delay_soon(rul_estimate))
              [] rule = 5 -> None
              [] rule = 6 -> Some(current_time + schedule_delay_low_rul(rul_estimate))
              [] rule = 7 -> None
    IN  [action |-> action,
         confidence |-> Min(confidence, 3000),
         failure_mode |-> failure_mode,
         failure_probability |-> failure_probability,
         rul_estimate |-> rul_estimate,
         anomaly_score |-> anomaly_score,
         expected_cost |-> compute_expected_cost(failure_probability, rul_estimate, action),
         scheduled_time |-> scheduled_time,
         reasoning |-> reasoning]

\* Faulty variant: the ranks of investigate and schedule_soon are exchanged.
get_maintenance_priority_swapped(d) ==
    CASE d.action = "critical_immediate" -> 1
      [] d.action = "schedule_urgent" -> 2
      [] d.action = "investigate" -> 4
      [] d.action = "schedule_soon" -> 3
      [] d.action = "monitor" -> 5
      [] d.action = "normal" -> 6
      [] OTHER -> 6

get_maintenance_priority(d) ==
    CASE d.action = "critical_immediate" -> 1
      [] d.action = "schedule_urgent" -> 2
      [] d.action = "investigate" -> 3
      [] d.action = "schedule_soon" -> 4
      [] d.action = "monitor" -> 5
      [] d.action = "normal" -> 6
      [] OTHER -> 6

(***************************************************************************)
(* src/preprocessing/features.py.  An observation (pd.Series) is a         *)
(* function from column names to values.                                   *)
(***************************************************************************)
FAILURE_COLS == {"Machine failure", "TWF", "HDF", "PWF", "OSF", "RNF"}

\* row.to_frame().T, the failure columns added with 0 where missing, then dropped.
build_single_row_feature_df(row) ==
    LET df == [c \in DOMAIN row \cup FAILURE_COLS |->
                  IF c \in DOMAIN row THEN row[c] ELSE 0]
    IN  [c \in DOMAIN df \ FAILURE_COLS |-> df[c]]

(***************************************************************************)
(* src/pipeline/realtime_loop.py                                           *)
(***************************************************************************)
\* datetime.isoformat(): the text of a time.
isoformat(t) == [iso |-> t]

\* Faulty variant of process_row: the index is validated (a negative one is
\* recorded as 0).
process_row_validating_index(row, idx, anomaly_score, failure_proba, failure_mode, failure_mode_confidence, rul_estimate, energy_estimate, now) ==
    LET anomaly_flag == anomaly_score >= ANOMALY_SCORE_THRESHOLD
        failure_flag == failure_proba >= FAILURE_PROBA_THRESHOLD
        d == optimize_maintenance_decision(failure_proba, failure_mode, rul_estimate,
                                           anomaly_score, anomaly_flag, now)
    IN  [row_index |-> Max(idx, 0),
         raw_row |-> row,
         anomaly_score |-> anomaly_score,
         anomaly_flag |-> anomaly_flag,
         failure_proba |-> failure_proba,
         failure_flag |-> failure_flag,
         failure_mode |-> failure_mode,
         failure_mode_confidence |-> failure_mode_confidence,
         rul_estimate |-> rul_estimate,
         energy_estimate |-> energy_estimate,
         maintenance_action |-> d.action,
         maintenance_priority |-> get_maintenance_priority(d),
         maintenance_reasoning |-> d.reasoning,
         expected_cost |-> d.expected_cost,
         scheduled_time |->
            IF d.scheduled_time # None THEN Some(isoformat(d.scheduled_time[1])) ELSE None]

\* RealtimePipeline.process_row, given what the five model adapters return
\* for the feature view and what datetime.now() reads: the RealtimeOutput.
process_row(row, idx, anomaly_score, failure_proba, failure_mode, failure_mode_confidence, rul_estimate, energy_estimate, now) ==
    LET X == build_single_row_feature_df(row)    \* what the adapters are given
        anomaly_flag == anomaly_score >= ANOMALY_SCORE_THRESHOLD
        failure_flag == failure_proba >= FAILURE_PROBA_THRESHOLD
        d == optimize_maintenance_decision(failure_proba, failure_mode, rul_estimate,
                                           anomaly_score, anomaly_flag, now)
        scheduled_time_str ==
            IF d.scheduled_time # None THEN Some(isoformat(d.scheduled_time[1])) ELSE None
    IN  [row_index |-> idx,
         raw_row |-> row,
         anomaly_score |-> anomaly_score,
         anomaly_flag |-> anomaly_flag,
         failure_proba |-> failure_proba,
         failure_flag |-> failure_flag,
         failure_mode |-> failure_mode,
         failure_mode_confidence |-> failure_mode_confidence,
         rul_estimate |-> rul_estimate,
         energy_estimate |-> energy_estimate,
         maintenance_action |-> d.action,
         maintenance_priority |-> get_maintenance_priority(d),
         maintenance_reasoning |-> d.reasoning,
         expected_cost |-> d.expected_cost,
         scheduled_time |-> scheduled_time_str]

(***************************************************************************)
(* Inputs.                                                                 *)
(***************************************************************************)
\* Policy arguments: probabilities 0, 0.05 .. 1; RUL in steps of 5 minutes from
\* -5 * MaxNegRulSteps to 5 * MaxRulSteps; anomaly scores in steps of 0.2 from
\* -0.2 * MaxNegScoreSteps to 0.2 * MaxScoreSteps.
Probabilities == {5 * i : i \in 0..20}
Ruls == {5 * i : i \in (0 - MaxNegRulSteps)..MaxRulSteps}
Scores == {20 * i : i \in (0 - MaxNegScoreSteps)..MaxScoreSteps}
Times == 0..MaxTime

PolicyArgs ==
    [failure_probability : Probabilities, failure_mode : FailureModes,
     rul_estimate : Ruls, anomaly_score : Scores, anomaly_flag : BOOLEAN,
     current_time : Times]

\* What the five fitted models return to one process_row call: one outcome per
\* rule of the policy, with the thresholded flags on and off their boundaries.
ModelOutputs ==
    {[anomaly_score |-> sc[1], failure_proba |-> sc[2], failure_mode |-> sc[3],
      failure_mode_confidence |-> 90, rul_estimate |-> sc[4], energy_estimate |-> 5] :
        sc \in {<<60, 35, "NORMAL", 200>>,   \* anomaly without fault
                <<60, 85, "HDF", 200>>,      \* anomaly with a fault, high probability
                <<30, 60, "HDF", 50>>,       \* elevated probability, low RUL
                <<30, 60, "HDF", 100>>,      \* moderate probability, moderate RUL
                <<30, 60, "NORMAL", 200>>,   \* moderate probability, adequate RUL
                <<30, 35, "NORMAL", 50>>,    \* probability on the threshold, low RUL
                <<30, 35, "NORMAL", 200>>,   \* probability on the threshold
                <<59, 10, "NORMAL", 200>>}}  \* score just under its threshold

\* What a caller of process_row passes (idx is not validated: negative, repeated
\* and decreasing values are passed too), and what datetime.now() reads.
Rows == {[c \in {"Type", "Tool wear [min]", "Machine failure"} |->
             IF c = "Type" THEN "L" ELSE 0]}
Indices == {-1, 0}
Nows == {0, 1}
Items == 1..MaxItem

\* What a caller of latest passes: negative, zero, up to more than any size.
LatestArgs == -1..(MaxCapacity + 1)

\* No repeated calls of the policy are under study.
NotRepeating ==
    /\ clock = 0
    /\ decisions = <<>>

\* No feature view is under study.
NoFeatureView == feature_view = None

\* No StreamSimulator is iterated on its own.
NotIterating ==
    /\ iter_df = <<>>
    /\ yielded = <<>>
    /\ exhausted = FALSE

\* No concurrent callers are under study.
NoThreads ==
    /\ threads = <<>>
    /\ effects = <<>>
    /\ completed = <<>>

\* No dashboard session is under study.
NoDashboard ==
    /\ session_state = <<>>
    /\ batch_calls = <<>>
    /\ pushed = <<>>
    /\ rendered = {}

\* run_forever has not been called.
NotRunning ==
    /\ pc = "idle"
    /\ loop_forever = FALSE
    /\ stream_pos = 0
    /\ enumerate_count = 0
    /\ frame = None
    /\ error = None
    /\ entry_buffer = <<>>
    /\ pulled = <<>>
    /\ processed = <<>>

(***************************************************************************)
(* The buffer alone: an InMemoryBuffer of any capacity, appended to.       *)
(***************************************************************************)
InitBuffer ==
    /\ maxlen \in 0..MaxCapacity
    /\ buffer = <<>>
    /\ appended = <<>>
    /\ args = None
    /\ decision = None
    /\ out = None
    /\ latest_result = None
    /\ NotRunning
    /\ NoFeatureView
    /\ NotRepeating
    /\ NotIterating
    /\ NoThreads
    /\ NoDashboard

BufferAppend ==
    /\ Len(appended) < MaxAppends
    /\ \E item \in Items :
          /\ buffer' = append(buffer, maxlen, item)
          /\ appended' = Append(appended, item)
    /\ UNCHANGED <<dashvars, threadvars, itervars, featurevars, repeatvars, maxlen, args, decision, out, latest_result, runvars>>

BufferLatest ==
    /\ \E n \in LatestArgs :
          /\ args' = Some([n |-> n])
          /\ latest_result' = Some(latest(buffer, n))
    /\ UNCHANGED <<dashvars, threadvars, itervars, featurevars, repeatvars, maxlen, buffer, appended, decision, out, runvars>>

NextBuffer == BufferAppend \/ BufferLatest

SpecBuffer == InitBuffer /\ [][NextBuffer]_vars

(***************************************************************************)
(* The policy alone: one call of optimize_maintenance_decision.            *)
(***************************************************************************)
InitPolicy ==
    /\ maxlen = BufferMaxlen
    /\ buffer = <<>>
    /\ appended = <<>>
    /\ args \in {Some(a) : a \in PolicyArgs}
    /\ decision = None
    /\ out = None
    /\ latest_result = None
    /\ NotRunning
    /\ NoFeatureView
    /\ NotRepeating
    /\ NotIterating
    /\ NoThreads
    /\ NoDashboard

Decide ==
    /\ decision = None
    /\ decision' = Some(optimize_maintenance_decision(
                            args[1].failure_probability, args[1].failure_mode,
                            args[1].rul_estimate, args[1].anomaly_score,
                            args[1].anomaly_flag, args[1].current_time))
    /\ UNCHANGED <<dashvars, threadvars, itervars, featurevars, repeatvars, maxlen, buffer, appended, args, out, latest_result, runvars>>

NextPolicy == Decide

SpecPolicy == InitPolicy /\ [][NextPolicy]_vars

(***************************************************************************)
(* The pipeline: RealtimePipeline() and its callers' process_row calls.    *)
(***************************************************************************)
Init ==
    /\ maxlen = BufferMaxlen
    /\ buffer = <<>>
    /\ appended = <<>>
    /\ args = None
    /\ decision = None
    /\ out = None
    /\ latest_result = None
    /\ NotRunning
    /\ NoFeatureView
    /\ NotRepeating
    /\ NotIterating
    /\ NoThreads
    /\ NoDashboard

ProcessRow ==
    /\ \E row \in Rows, idx \in Indices, m \in ModelOutputs, now \in Nows :
          LET o == process_row(row, idx, m.anomaly_score, m.failure_proba,
                               m.failure_mode, m.failure_mode_confidence,
                               m.rul_estimate, m.energy_estimate, now)
          IN  /\ args' = Some([row |-> row, idx |-> idx])
              /\ buffer' = append(buffer, maxlen, o)
              /\ out' = Some(o)
    /\ UNCHANGED <<dashvars, threadvars, itervars, featurevars, repeatvars, maxlen, appended, decision, latest_result, runvars>>

Next == ProcessRow

Spec == Init /\ [][Next]_vars

(***************************************************************************)
(* The feature view of an observation: any subset of the columns of the    *)
(* prepared data may be present in the row.                                *)
(***************************************************************************)
\* Columns of the prepared data (etl.py): predictive ones, failure indicators
\* and the multi-class label.
PredictiveCols == {"Type", "Torque [Nm]", "Tool wear [min]"}
LabelCols == FAILURE_COLS \cup {"FailureMode"}
ObservationCols == PredictiveCols \cup {"Machine failure", "TWF", "FailureMode"}

Observations ==
    UNION {[cols -> 1..MaxFieldValue] : cols \in SUBSET ObservationCols}

InitFeatures ==
    /\ maxlen = BufferMaxlen
    /\ buffer = <<>>
    /\ appended = <<>>
    /\ args \in {Some([row |-> r]) : r \in Observations}
    /\ decision = None
    /\ out = None
    /\ latest_result = None
    /\ NotRunning
    /\ NotRepeating
    /\ NoFeatureView
    /\ NotIterating
    /\ NoThreads
    /\ NoDashboard

BuildFeatureView ==
    /\ feature_view = None
    /\ feature_view' = Some(build_single_row_feature_df(args[1].row))
    /\ UNCHANGED <<dashvars, threadvars, itervars, maxlen, buffer, appended, args, decision, out, latest_result,
                   runvars, repeatvars>>

NextFeatures == BuildFeatureView

SpecFeatures == InitFeatures /\ [][NextFeatures]_vars

(***************************************************************************)
(* The policy called repeatedly with the same arguments while the wall     *)
(* clock advances; current_time is given or left out.                      *)
(***************************************************************************)
RepeatArgs ==
    {[failure_probability |-> m.failure_proba, failure_mode |-> m.failure_mode,
      rul_estimate |-> m.rul_estimate, anomaly_score |-> m.anomaly_score,
      anomaly_flag |-> m.anomaly_score >= ANOMALY_SCORE_THRESHOLD,
      current_time |-> t] :
        m \in ModelOutputs, t \in {None} \cup {Some(x) : x \in Times}}

InitRepeat ==
    /\ maxlen = BufferMaxlen
    /\ buffer = <<>>
    /\ appended = <<>>
    /\ args \in {Some(a) : a \in RepeatArgs}
    /\ decision = None
    /\ out = None
    /\ latest_result = None
    /\ NotRunning
    /\ NoFeatureView
    /\ NotRepeating
    /\ NotIterating
    /\ NoThreads
    /\ NoDashboard

\* Time passes.
Tick ==
    /\ clock < MaxClock
    /\ clock' = clock + 1
    /\ UNCHANGED <<dashvars, threadvars, itervars, featurevars, maxlen, buffer, appended, args, decision, out, latest_result,
                   runvars, decisions>>

\* One more call with the same arguments.
CallAgain ==
    /\ Len(decisions) < MaxCalls
    /\ decisions' = Append(decisions,
          [at |-> clock,
           decision |-> optimize_maintenance_decision(
               args[1].failure_probability, args[1].failure_mode,
               args[1].rul_estimate, args[1].anomaly_score, args[1].anomaly_flag,
               resolve_current_time(args[1].current_time, clock))])
    /\ UNCHANGED <<dashvars, threadvars, itervars, featurevars, maxlen, buffer, appended, args, decision, out, latest_result,
                   runvars, clock>>

NextRepeat == Tick \/ CallAgain

SpecRepeat == InitRepeat /\ [][NextRepeat]_vars

(***************************************************************************)
(* run_forever: the loop over the stream, a process_row call taken step by  *)
(* step, each model adapter free to raise.                                  *)
(***************************************************************************)
\* StreamSimulator.df, what pd.read_csv returned: two rows.
DatasetRow(wear) ==
    [c \in {"Type", "Tool wear [min]", "Machine failure"} |->
        IF c = "Type" THEN "L" ELSE IF c = "Tool wear [min]" THEN wear ELSE 0]

Dataset == <<DatasetRow(0), DatasetRow(1)>>

\* What the model adapters return for a feature view.
AnomalyScoreOutputs == {30, 60}
FailureProbaOutputs == {35, 85}
FailureModeOutputs == {"NORMAL"}
FailureModeProbaOutputs == {90}
RulOutputs == {200}
EnergyOutputs == {5}

\* The calls of process_row, in the order of its statements.
\* Faulty variant: the energy forecast is skipped.
StepsSkippingEnergy ==
    <<"build_single_row_feature_df", "compute_anomaly_score", "failure_probability",
      "predict_failure_mode", "predict_failure_mode_proba", "predict_rul",
      "optimize_maintenance_decision", "buffer.append">>

Steps ==
    <<"build_single_row_feature_df", "compute_anomaly_score", "failure_probability",
      "predict_failure_mode", "predict_failure_mode_proba", "predict_rul",
      "predict_energy", "optimize_maintenance_decision", "buffer.append">>

StepAfter(step) ==
    LET i == CHOOSE j \in 1..Len(Steps) : Steps[j] = step IN Steps[i + 1]

\* The calls that may raise: the feature build and the model adapters.
FallibleSteps ==
    {"build_single_row_feature_df", "compute_anomaly_score", "failure_probability",
     "predict_failure_mode", "predict_failure_mode_proba", "predict_rul",
     "predict_energy"}

\* The locals of process_row(row, idx) at its first statement.
NewFrame(row, idx) ==
    [row |-> row, idx |-> idx, X |-> None, calls |-> <<>>,
     anomaly_score |-> None, failure_proba |-> None, failure_mode |-> None,
     failure_mode_confidence |-> None, rul_estimate |-> None,
     energy_estimate |-> None, now |-> None, decision |-> None]

\* RealtimePipeline() constructed, run_forever entered and its stream built.
InitRun ==
    /\ maxlen = BufferMaxlen
    /\ buffer = <<>>
    /\ appended = <<>>
    /\ args = None
    /\ decision = None
    /\ out = None
    /\ latest_result = None
    /\ pc = "next"
    /\ loop_forever = TRUE
    /\ stream_pos = 0
    /\ enumerate_count = 0
    /\ frame = None
    /\ error = None
    /\ entry_buffer = <<>>
    /\ pulled = <<>>
    /\ processed = <<>>
    /\ NotRepeating
    /\ NoFeatureView
    /\ NotIterating
    /\ NoThreads
    /\ NoDashboard

\* The same loop over a StreamSimulator built with either loop_forever (the
\* constructor's default is False; run_forever passes True).
InitStream ==
    /\ maxlen = BufferMaxlen
    /\ buffer = <<>>
    /\ appended = <<>>
    /\ args = None
    /\ decision = None
    /\ out = None
    /\ latest_result = None
    /\ pc = "next"
    /\ loop_forever \in BOOLEAN
    /\ stream_pos = 0
    /\ enumerate_count = 0
    /\ frame = None
    /\ error = None
    /\ entry_buffer = <<>>
    /\ pulled = <<>>
    /\ processed = <<>>
    /\ NotRepeating
    /\ NoFeatureView
    /\ NotIterating
    /\ NoThreads
    /\ NoDashboard

\* for idx, row in enumerate(stream): the iterator yields the next row of this
\* pass and process_row(row, idx) is entered.
StreamNext ==
    /\ pc = "next"
    /\ stream_pos < Len(Dataset)
    /\ Len(pulled) < MaxPulls
    /\ stream_pos' = stream_pos + 1
    /\ enumerate_count' = enumerate_count + 1
    /\ pulled' = Append(pulled, stream_pos + 1)
    /\ args' = Some([row |-> Dataset[stream_pos + 1], idx |-> enumerate_count])
    /\ frame' = NewFrame(Dataset[stream_pos + 1], enumerate_count)
    /\ entry_buffer' = buffer
    /\ pc' = Steps[1]
    /\ UNCHANGED <<dashvars, threadvars, itervars, featurevars, repeatvars, maxlen, buffer, appended, decision, out, latest_result,
                   loop_forever, error, processed>>

\* Faulty variant of StreamExhausted: the test of loop_forever is inverted.
StreamExhaustedInverted ==
    /\ pc = "next"
    /\ stream_pos = Len(Dataset)
    /\ IF loop_forever
         THEN pc' = "done" /\ stream_pos' = stream_pos
         ELSE pc' = pc /\ stream_pos' = 0
    /\ UNCHANGED <<dashvars, threadvars, itervars, featurevars, repeatvars, maxlen, buffer, appended, args, decision, out, latest_result,
                   loop_forever, enumerate_count, frame, error, entry_buffer,
                   pulled, processed>>

\* Faulty variant of StreamExhausted: the index starts again at 0 with each pass.
StreamExhaustedResetsIndex ==
    /\ pc = "next"
    /\ stream_pos = Len(Dataset)
    /\ IF ~loop_forever
         THEN pc' = "done" /\ stream_pos' = stream_pos /\ enumerate_count' = enumerate_count
         ELSE pc' = pc /\ stream_pos' = 0 /\ enumerate_count' = 0
    /\ UNCHANGED <<dashvars, threadvars, itervars, featurevars, repeatvars, maxlen, buffer, appended, args, decision, out, latest_result,
                   loop_forever, frame, error, entry_buffer, pulled, processed>>

\* The pass over self.df is over: `if not self.loop_forever: break` ends the
\* iterator and with it the for loop of run_forever; otherwise the next pass
\* begins.
StreamExhausted ==
    /\ pc = "next"
    /\ stream_pos = Len(Dataset)
    /\ IF ~loop_forever
         THEN pc' = "done" /\ stream_pos' = stream_pos
         ELSE pc' = pc /\ stream_pos' = 0
    /\ UNCHANGED <<dashvars, threadvars, itervars, featurevars, repeatvars, maxlen, buffer, appended, args, decision, out, latest_result,
                   loop_forever, enumerate_count, frame, error, entry_buffer,
                   pulled, processed>>

\* X = build_single_row_feature_df(row)
BuildFeatures ==
    /\ pc = "build_single_row_feature_df"
    /\ frame' = [frame EXCEPT !.X = Some(build_single_row_feature_df(frame.row))]
    /\ pc' = StepAfter(pc)
    /\ UNCHANGED <<dashvars, threadvars, itervars, featurevars, repeatvars, maxlen, buffer, appended, args, decision, out, latest_result,
                   loop_forever, stream_pos, enumerate_count, error, entry_buffer,
                   pulled, processed>>

\* A model adapter is called with X and its result kept in a local.
CallAdapter(adapter, local, outputs) ==
    /\ pc = adapter
    /\ \E v \in outputs :
          frame' = [frame EXCEPT ![local] = Some(v),
                                 !.calls = Append(@, [adapter |-> adapter, X |-> frame.X])]
    /\ pc' = StepAfter(pc)
    /\ UNCHANGED <<dashvars, threadvars, itervars, featurevars, repeatvars, maxlen, buffer, appended, args, decision, out, latest_result,
                   loop_forever, stream_pos, enumerate_count, error, entry_buffer,
                   pulled, processed>>

ComputeAnomalyScore ==
    CallAdapter("compute_anomaly_score", "anomaly_score", AnomalyScoreOutputs)

FailureProbability ==
    CallAdapter("failure_probability", "failure_proba", FailureProbaOutputs)

PredictFailureMode ==
    CallAdapter("predict_failure_mode", "failure_mode", FailureModeOutputs)

PredictFailureModeProba ==
    CallAdapter("predict_failure_mode_proba", "failure_mode_confidence", FailureModeProbaOutputs)

PredictRul ==
    CallAdapter("predict_rul", "rul_estimate", RulOutputs)

PredictEnergy ==
    CallAdapter("predict_energy", "energy_estimate", EnergyOutputs)

\* decision = optimize_maintenance_decision(..., current_time=datetime.now())
OptimizeDecision ==
    /\ pc = "optimize_maintenance_decision"
    /\ \E now \in Nows :
          frame' = [frame EXCEPT
                      !.now = Some(now),
                      !.decision = Some(optimize_maintenance_decision(
                          frame.failure_proba[1], frame.failure_mode[1],
                          frame.rul_estimate[1], frame.anomaly_score[1],
                          frame.anomaly_score[1] >= ANOMALY_SCORE_THRESHOLD, now))]
    /\ pc' = StepAfter(pc)
    /\ UNCHANGED <<dashvars, threadvars, itervars, featurevars, repeatvars, maxlen, buffer, appended, args, decision, out, latest_result,
                   loop_forever, stream_pos, enumerate_count, error, entry_buffer,
                   pulled, processed>>

\* out = RealtimeOutput(...); self.buffer.append(out.__dict__); return out; the
\* loop body of run_forever prints and the loop goes on.
AppendAndReturn ==
    /\ pc = "buffer.append"
    /\ LET o == process_row(frame.row, frame.idx, frame.anomaly_score[1],
                            frame.failure_proba[1], frame.failure_mode[1],
                            frame.failure_mode_confidence[1], frame.rul_estimate[1],
                            frame.energy_estimate[1], frame.now[1])
       IN  /\ buffer' = append(buffer, maxlen, o)
           /\ out' = Some(o)
    /\ processed' = Append(processed, [pos |-> pulled[Len(pulled)], idx |-> frame.idx])
    /\ pc' = "next"
    /\ UNCHANGED <<dashvars, threadvars, itervars, featurevars, repeatvars, maxlen, appended, args, decision, latest_result, loop_forever,
                   stream_pos, enumerate_count, frame, error, entry_buffer, pulled>>

\* Faulty variant of AdapterFails: what the call had so far is appended.
AdapterFailsAfterAppend ==
    /\ pc \in FallibleSteps
    /\ error' = Some(pc)
    /\ pc' = "process_row_raised"
    /\ buffer' = append(buffer, maxlen, frame)
    /\ UNCHANGED <<dashvars, threadvars, itervars, featurevars, repeatvars, maxlen, appended, args, decision, out, latest_result,
                   loop_forever, stream_pos, enumerate_count, frame, entry_buffer,
                   pulled, processed>>

\* The feature build or a model adapter raises: process_row has no handler, the
\* exception leaves it at once.
AdapterFails ==
    /\ pc \in FallibleSteps
    /\ error' = Some(pc)
    /\ pc' = "process_row_raised"
    /\ UNCHANGED <<dashvars, threadvars, itervars, featurevars, repeatvars, maxlen, buffer, appended, args, decision, out, latest_result,
                   loop_forever, stream_pos, enumerate_count, frame, entry_buffer,
                   pulled, processed>>

\* Faulty variant of RunForeverRaises: the loop goes on with the next row.
RunForeverSwallows ==
    /\ pc = "process_row_raised"
    /\ pc' = "next"
    /\ UNCHANGED <<dashvars, threadvars, itervars, featurevars, repeatvars, maxlen, buffer, appended, args, decision, out, latest_result,
                   loop_forever, stream_pos, enumerate_count, frame, error,
                   entry_buffer, pulled, processed>>

\* run_forever has no handler around process_row either: the exception ends it.
RunForeverRaises ==
    /\ pc = "process_row_raised"
    /\ pc' = "raised"
    /\ UNCHANGED <<dashvars, threadvars, itervars, featurevars, repeatvars, maxlen, buffer, appended, args, decision, out, latest_result,
                   loop_forever, stream_pos, enumerate_count, frame, error,
                   entry_buffer, pulled, processed>>

NextRun ==
    \/ StreamNext
    \/ StreamExhausted
    \/ BuildFeatures
    \/ ComputeAnomalyScore
    \/ FailureProbability
    \/ PredictFailureMode
    \/ PredictFailureModeProba
    \/ PredictRul
    \/ PredictEnergy
    \/ OptimizeDecision
    \/ AppendAndReturn
    \/ AdapterFails
    \/ RunForeverRaises

SpecRun == InitRun /\ [][NextRun]_vars

\* A sequential program takes its next step whenever it has one.
SpecStream == InitStream /\ [][NextRun]_vars /\ WF_vars(NextRun)

(***************************************************************************)
(* A StreamSimulator iterated on its own, over any small dataset, built    *)
(* with either loop_forever.                                               *)
(***************************************************************************)
RECURSIVE SeqsUpTo(_, _)
SeqsUpTo(S, n) ==
    IF n = 0 THEN {<<>>}
    ELSE LET shorter == SeqsUpTo(S, n - 1)
         IN  shorter \cup {Append(q, x) : q \in shorter, x \in S}

Datasets == SeqsUpTo({DatasetRow(0), DatasetRow(1)}, MaxRows)

InitIter ==
    /\ maxlen = BufferMaxlen
    /\ buffer = <<>>
    /\ appended = <<>>
    /\ args = None
    /\ decision = None
    /\ out = None
    /\ latest_result = None
    /\ pc = "idle"
    /\ loop_forever \in BOOLEAN
    /\ stream_pos = 0
    /\ enumerate_count = 0
    /\ frame = None
    /\ error = None
    /\ entry_buffer = <<>>
    /\ pulled = <<>>
    /\ processed = <<>>
    /\ NotRepeating
    /\ NoFeatureView
    /\ iter_df \in Datasets
    /\ yielded = <<>>
    /\ exhausted = FALSE
    /\ NoThreads
    /\ NoDashboard

\* for _, row in self.df.iterrows(): yield row
IterYield ==
    /\ ~exhausted
    /\ stream_pos < Len(iter_df)
    /\ Len(yielded) < MaxYields
    /\ yielded' = Append(yielded, iter_df[stream_pos + 1])
    /\ stream_pos' = stream_pos + 1
    /\ UNCHANGED <<dashvars, threadvars, maxlen, buffer, appended, args, decision, out, latest_result,
                   pc, loop_forever, enumerate_count, frame, error, entry_buffer,
                   pulled, processed, repeatvars, featurevars, iter_df, exhausted>>

\* Faulty variant of IterPassEnds: the test of loop_forever is inverted.
IterPassEndsInverted ==
    /\ ~exhausted
    /\ stream_pos = Len(iter_df)
    /\ IF loop_forever
         THEN exhausted' = TRUE /\ stream_pos' = stream_pos
         ELSE exhausted' = exhausted /\ stream_pos' = 0
    /\ UNCHANGED <<dashvars, threadvars, maxlen, buffer, appended, args, decision, out, latest_result,
                   pc, loop_forever, enumerate_count, frame, error, entry_buffer,
                   pulled, processed, repeatvars, featurevars, iter_df, yielded>>

\* The for loop over self.df is over: `if not self.loop_forever: break` ends
\* the generator, otherwise `while True` starts the next pass.
IterPassEnds ==
    /\ ~exhausted
    /\ stream_pos = Len(iter_df)
    /\ IF ~loop_forever
         THEN exhausted' = TRUE /\ stream_pos' = stream_pos
         ELSE exhausted' = exhausted /\ stream_pos' = 0
    /\ UNCHANGED <<dashvars, threadvars, maxlen, buffer, appended, args, decision, out, latest_result,
                   pc, loop_forever, enumerate_count, frame, error, entry_buffer,
                   pulled, processed, repeatvars, featurevars, iter_df, yielded>>

NextIter == IterYield \/ IterPassEnds

\* The consumer keeps asking for the next row.
SpecIter == InitIter /\ [][NextIter]_vars /\ WF_vars(NextIter)

(***************************************************************************)
(* Two callers of process_row on one RealtimePipeline, their calls         *)
(* interleaved. deque.append is a single step: CPython's deque appends are *)
(* thread-safe.                                                            *)
(***************************************************************************)
Callers == {1, 2}

\* What the adapters return for the rows the callers pass.
CallerOutputs == {m \in ModelOutputs : m.failure_proba \in {10, 85}}

\* The index a caller passes with its k-th call (k from 0): each caller counts
\* in its own residue class.
CallerIndex(t, k) == 2 * k + (t - 1)

InitThreads ==
    /\ maxlen = BufferMaxlen
    /\ buffer = <<>>
    /\ appended = <<>>
    /\ args = None
    /\ decision = None
    /\ out = None
    /\ latest_result = None
    /\ NotRunning
    /\ NotRepeating
    /\ NoFeatureView
    /\ NotIterating
    /\ threads = [t \in Callers |-> [pc |-> "idle", calls |-> 0, out |-> None]]
    /\ effects = <<>>
    /\ completed = <<>>
    /\ NoDashboard

\* A caller enters process_row and runs it up to `out = RealtimeOutput(...)`.
ThreadBuildOutput ==
    /\ \E t \in Callers, row \in Rows, m \in CallerOutputs :
          /\ threads[t].pc = "idle"
          /\ threads[t].calls < MaxThreadCalls
          /\ threads' = [threads EXCEPT ![t] =
                [pc |-> "append", calls |-> @.calls,
                 out |-> Some(process_row(row, CallerIndex(t, @.calls), m.anomaly_score,
                                          m.failure_proba, m.failure_mode,
                                          m.failure_mode_confidence, m.rul_estimate,
                                          m.energy_estimate, clock))]]
    /\ UNCHANGED <<dashvars, maxlen, buffer, appended, args, decision, out, latest_result,
                   runvars, repeatvars, featurevars, itervars, effects, completed>>

\* Faulty variant of ThreadAppend: of two appends that race, one is lost.
ThreadAppendRacy ==
    /\ \E t \in Callers :
          /\ threads[t].pc = "append"
          /\ buffer' = append(buffer, maxlen, threads[t].out[1])
          /\ effects' = Append(effects, threads[t].out[1])
          /\ threads' = [u \in Callers |->
                IF u = t \/ threads[u].pc = "append"
                  THEN [threads[u] EXCEPT !.pc = "return"]
                  ELSE threads[u]]
    /\ UNCHANGED <<dashvars, maxlen, appended, args, decision, out, latest_result,
                   runvars, repeatvars, featurevars, itervars, completed>>

\* self.buffer.append(out.__dict__)
ThreadAppend ==
    /\ \E t \in Callers :
          /\ threads[t].pc = "append"
          /\ buffer' = append(buffer, maxlen, threads[t].out[1])
          /\ effects' = Append(effects, threads[t].out[1])
          /\ threads' = [threads EXCEPT ![t].pc = "return"]
    /\ UNCHANGED <<dashvars, maxlen, appended, args, decision, out, latest_result,
                   runvars, repeatvars, featurevars, itervars, completed>>

\* return out
ThreadReturn ==
    /\ \E t \in Callers :
          /\ threads[t].pc = "return"
          /\ completed' = Append(completed, threads[t].out[1])
          /\ threads' = [threads EXCEPT ![t] =
                [pc |-> "idle", calls |-> @.calls + 1, out |-> None]]
    /\ UNCHANGED <<dashvars, maxlen, buffer, appended, args, decision, out, latest_result,
                   runvars, repeatvars, featurevars, itervars, effects>>

NextThreads == ThreadBuildOutput \/ ThreadAppend \/ ThreadReturn

SpecThreads == InitThreads /\ [][NextThreads]_vars

(***************************************************************************)
(* src/dashboard/app.py: one session of the dashboard, its script run again *)
(* and again (auto-refresh, clicks). A page run is one step.                *)
(* Scale: the slider allows batches up to 50, the page shows latest(300)    *)
(* and the buffer keeps 500; here 2 * MaxBatchSize < LatestShown < maxlen.  *)
(***************************************************************************)
ALERTS_SHOWN == 5
LatestShown == 2 * MaxBatchSize + 1

\* The rows of stream_df, each with what the (deterministic) model adapters
\* return for it: the two sides of the dashboard's "critical" threshold, an
\* urgent observation (priority 2) and an investigate one (priority 3).
DashboardOutputs ==
    {m \in ModelOutputs :
        <<m.anomaly_score, m.failure_proba, m.rul_estimate>> \in
            {<<30, 60, 50>>, <<60, 35, 200>>}}

ScoredRows == {[raw |-> DatasetRow(0), m |-> m] : m \in DashboardOutputs}

StreamDfs == SeqsUpTo(ScoredRows, MaxStreamRows)

\* init_state
init_state(stream_df) ==
    [stream_df |-> stream_df, stream_pos |-> 0, auto_run |-> FALSE,
     last_processed |-> None, stream_paused |-> FALSE,
     resolved_critical_rows |-> <<>>]

\* What the user did to cause this page run: nothing (auto-refresh), a click
\* on "Process one batch now", or a click on one of the "Mark as fixed"
\* buttons that the page run before rendered.
Clicks(buttons) ==
    {[kind |-> k, row_index |-> -1] : k \in {"none", "process"}}
        \cup {[kind |-> "fix", row_index |-> r] : r \in buttons}

\* df.iloc[a:b]: the positions a+1..b of df, b clamped to the length.
iloc_stop(df, b) == Min(b, Len(df))

\* end = min(pos + batch_size, len(df))
\* Faulty variant: the end is not clamped to the length.
batch_end_unclamped(pos, batch_size, length) == pos + batch_size

batch_end(pos, batch_size, length) == Min(pos + batch_size, length)

\* The for loop of process_batch: pipeline.process_row(row, pos + i) for the
\* rows at positions pos+1..stop, in order.
RECURSIVE push_rows(_, _, _, _, _, _)
push_rows(buf, cap, df, pos, stop, now) ==
    IF pos >= stop THEN buf
    ELSE LET r == df[pos + 1]
             o == process_row(r.raw, pos, r.m.anomaly_score, r.m.failure_proba,
                              r.m.failure_mode, r.m.failure_mode_confidence,
                              r.m.rul_estimate, r.m.energy_estimate, now)
         IN  push_rows(append(buf, cap, o), cap, df, pos + 1, stop, now)

\* process_batch: the session state and the buffer after the call, what it
\* returned, and the streaming indices it passed to process_row.
process_batch(ss, buf, cap, batch_size, now) ==
    LET df == ss.stream_df
        pos == ss.stream_pos
        end == batch_end(pos, batch_size, Len(df))
        stop == iloc_stop(df, end)
    IN  IF pos >= Len(df)
          THEN [session_state |-> ss, buffer |-> buf, returned |-> 0, idxs |-> <<>>]
          ELSE [session_state |-> [ss EXCEPT !.stream_pos = end,
                                             !.last_processed = Some(now)],
                buffer |-> push_rows(buf, cap, df, pos, stop, now),
                returned |-> stop - pos,
                idxs |-> [i \in 1..(stop - pos) |-> pos + i - 1]]

\* A process_batch call made by the page, logged.
run_batch(pg, cap, batch_size, now) ==
    CHOOSE after \in
        {[session_state |-> r.session_state,
          buffer |-> r.buffer,
          calls |-> Append(pg.calls,
             [pos |-> pg.session_state.stream_pos,
              batch_size |-> batch_size,
              length |-> Len(pg.session_state.stream_df),
              returned |-> r.returned,
              idxs |-> r.idxs,
              end_pos |-> r.session_state.stream_pos,
              same |-> r.session_state = pg.session_state /\ r.buffer = pg.buffer])] :
            r \in {process_batch(pg.session_state, pg.buffer, cap, batch_size, now)}} : TRUE

\* if st.button("Process one batch now"): ...
\* Faulty variant: the button does not look at stream_paused.
manual_batch_ignoring_pause(pg, click, cap, batch_size, now) ==
    IF click.kind = "process" THEN run_batch(pg, cap, batch_size, now) ELSE pg

manual_batch(pg, click, cap, batch_size, now) ==
    IF click.kind = "process" /\ ~pg.session_state.stream_paused
      THEN run_batch(pg, cap, batch_size, now)
      ELSE pg

\* if st.session_state["auto_run"]: ...
auto_batch(pg, cap, batch_size, now) ==
    IF pg.session_state.auto_run /\ ~pg.session_state.stream_paused
      THEN run_batch(pg, cap, batch_size, now)
      ELSE pg

\* The positions in `shown` of the critical alerts not marked as fixed.
unresolved_critical(shown, resolved_rows) ==
    {i \in 1..Len(shown) :
        /\ shown[i].maintenance_priority <= 2
        /\ shown[i].row_index \notin resolved_rows}

\* The alerts that can be among the first ALERTS_SHOWN after
\* sort_values("maintenance_priority"): those with fewer than ALERTS_SHOWN
\* alerts of a strictly smaller priority number before them.
displayed_alerts(shown, unresolved) ==
    {i \in unresolved :
        Cardinality({j \in unresolved :
            shown[j].maintenance_priority < shown[i].maintenance_priority}) < ALERTS_SHOWN}

\* Faulty variant of update_pause: stream_paused is set from every critical
\* alert shown, the ones marked as fixed as well.
update_pause_counting_resolved(pg, click, rendered_before) ==
    LET ss == pg.session_state
        shown == latest(pg.buffer, LatestShown)
        resolved_rows == {ss.resolved_critical_rows[k] : k \in DOMAIN ss.resolved_critical_rows}
        unresolved == unresolved_critical(shown, resolved_rows)
        displayed == {shown[i].row_index : i \in displayed_alerts(shown, unresolved)}
        fixed == /\ click.kind = "fix"
                 /\ click.row_index \in rendered_before
                 /\ click.row_index \in displayed
    IN  IF shown = <<>> THEN [pg |-> pg, rendered |-> {}]
        ELSE [pg |-> [pg EXCEPT !.session_state =
                        [ss EXCEPT !.stream_paused = unresolved_critical(shown, {}) # {},
                                   !.resolved_critical_rows =
                                       IF fixed THEN Append(@, click.row_index) ELSE @]],
              rendered |-> displayed]

\* The rest of main: the buffer shown, stream_paused set from the unresolved
\* critical alerts, and the "Mark as fixed" button of each displayed alert. A
\* button reports a click only if the page run before rendered it (it was
\* there to be clicked) and this one renders it again.
update_pause(pg, click, rendered_before) ==
    LET ss == pg.session_state
        shown == latest(pg.buffer, LatestShown)
        resolved_rows == {ss.resolved_critical_rows[k] : k \in DOMAIN ss.resolved_critical_rows}
        unresolved == unresolved_critical(shown, resolved_rows)
        displayed == {shown[i].row_index : i \in displayed_alerts(shown, unresolved)}
        fixed == /\ click.kind = "fix"
                 /\ click.row_index \in rendered_before
                 /\ click.row_index \in displayed
    IN  IF shown = <<>> THEN [pg |-> pg, rendered |-> {}]
        ELSE [pg |-> [pg EXCEPT !.session_state =
                        [ss EXCEPT !.stream_paused = unresolved # {},
                                   !.resolved_critical_rows =
                                       IF fixed THEN Append(@, click.row_index) ELSE @]],
              rendered |-> displayed]

\* The first page run has not happened: the session is new; the pipeline's
\* buffer is larger than what the page shows.
InitDash ==
    /\ maxlen = LatestShown + BufferMaxlen
    /\ buffer = <<>>
    /\ appended = <<>>
    /\ args = None
    /\ decision = None
    /\ out = None
    /\ latest_result = None
    /\ NotRunning
    /\ NotRepeating
    /\ NoFeatureView
    /\ NotIterating
    /\ NoThreads
    /\ session_state \in {init_state(d) : d \in StreamDfs}
    /\ batch_calls = <<>>
    /\ pushed = <<>>
    /\ rendered = {}

\* main(): one run of the script. (Each stage of the page is computed once:
\* the singleton sets only name its value.)
Rerun ==
    /\ \E click \in Clicks(rendered), auto_run \in BOOLEAN, batch_size \in 1..MaxBatchSize :
        \E pg0 \in {[session_state |-> [session_state EXCEPT !.auto_run = auto_run],
                     buffer |-> buffer, calls |-> <<>>]} :
        \E pg1 \in {manual_batch(pg0, click, maxlen, batch_size, clock)} :
        \E pg2 \in {auto_batch(pg1, maxlen, batch_size, clock)} :
        \E page \in {update_pause(pg2, click, rendered)} :
        \E pg3 \in {page.pg} :
            /\ session_state' = pg3.session_state
            /\ buffer' = pg3.buffer
            /\ batch_calls' = pg3.calls
            /\ rendered' = page.rendered
            /\ pushed' = pushed \o
                  (IF Len(pg3.calls) = 0 THEN <<>>
                   ELSE IF Len(pg3.calls) = 1 THEN pg3.calls[1].idxs
                   ELSE pg3.calls[1].idxs \o pg3.calls[2].idxs)
    /\ UNCHANGED <<maxlen, appended, args, decision, out, latest_result,
                   runvars, repeatvars, featurevars, itervars, threadvars>>

NextDash == Rerun

\* st_autorefresh runs the script again every refresh_ms.
SpecDash == InitDash /\ [][NextDash]_vars /\ WF_vars(NextDash)

(***************************************************************************)
(* Properties.                                                             *)
(***************************************************************************)
Decided == decision # None
arg == args[1]
dec == decision[1]
AnomalyWithoutFault == arg.anomaly_flag /\ arg.failure_mode = "NORMAL"

\* C1: after k appends to a buffer of capacity N, all() is exactly the last
\* min(k, N) appended items in the order of their appends, and the buffer never
\* holds more than N items (the oldest are the ones evicted).
C1_BufferKeepsLastN ==
    LET k == Len(appended)
        kept == Min(k, maxlen)
    IN  /\ all(buffer) = SubSeq(appended, k - kept + 1, k)
        /\ size(buffer) <= maxlen

\* C1 witness: more appends than the capacity, and the items kept differ, so
\* their order shows.
C1_Witness ==
    /\ maxlen >= 2
    /\ Len(appended) > maxlen + 1
    /\ Len(buffer) = maxlen
    /\ buffer[1] # buffer[2]
    /\ appended[1] # buffer[1]

\* C2: whenever anomaly_flag is set and failure_mode is "NORMAL", the decision
\* is investigate, of priority 3, scheduled 2 hours after current_time, whatever
\* the failure probability and the RUL.
C2_AnomalyRuleFirst ==
    Decided /\ AnomalyWithoutFault =>
        /\ dec.action = "investigate"
        /\ get_maintenance_priority(dec) = 3
        /\ dec.scheduled_time = Some(arg.current_time + 120)

\* C2 witness: an anomaly without fault whose probability and RUL are both
\* critical, decided as investigate.
C2_Witness ==
    /\ Decided /\ AnomalyWithoutFault
    /\ arg.failure_probability > 70 /\ arg.rul_estimate < 30
    /\ dec.action = "investigate"

\* C3 as stated: whenever failure probability > 0.70 or RUL < 30, the decision
\* is critical_immediate, of priority 1, scheduled at current_time, regardless of
\* the anomaly flag and the failure mode.
C3_CriticalRegardless ==
    Decided /\ (arg.failure_probability > 70 \/ arg.rul_estimate < 30) =>
        /\ dec.action = "critical_immediate"
        /\ get_maintenance_priority(dec) = 1
        /\ dec.scheduled_time = Some(arg.current_time)

\* C3 amended: whenever the anomaly-without-fault rule does not match and
\* failure probability > 0.70 or RUL < 30, the decision is critical_immediate, of
\* priority 1, scheduled at current_time.
C3_CriticalUnlessAnomaly ==
    Decided /\ ~AnomalyWithoutFault
            /\ (arg.failure_probability > 70 \/ arg.rul_estimate < 30) =>
        /\ dec.action = "critical_immediate"
        /\ get_maintenance_priority(dec) = 1
        /\ dec.scheduled_time = Some(arg.current_time)

\* C3 witness: low RUL alone (probability 0.30 or less), anomaly flag set with a
\* predicted fault, decided as critical_immediate.
C3_Witness ==
    /\ Decided
    /\ arg.rul_estimate < 30 /\ arg.failure_probability <= 30
    /\ arg.anomaly_flag /\ arg.failure_mode # "NORMAL"
    /\ dec.action = "critical_immediate"

\* C4: the decision is schedule_urgent exactly when the anomaly-without-fault
\* rule does not match, probability <= 0.70, RUL >= 30, probability > 0.50 and
\* RUL < 60; such a decision has priority 2.
C4_UrgentExactly ==
    Decided =>
        /\ dec.action = "schedule_urgent" <=>
              /\ ~AnomalyWithoutFault
              /\ arg.failure_probability <= 70 /\ arg.rul_estimate >= 30
              /\ arg.failure_probability > 50 /\ arg.rul_estimate < 60
        /\ dec.action = "schedule_urgent" => get_maintenance_priority(dec) = 2

\* C4 witness: a schedule_urgent decision on the edge of the critical rule
\* (probability 0.70, RUL 30).
C4_Witness ==
    /\ Decided
    /\ dec.action = "schedule_urgent"
    /\ arg.failure_probability = 70 /\ arg.rul_estimate = 30

C6_MonitorExactly ==
    Decided =>
        /\ dec.action = "monitor" <=>
              /\ ~AnomalyWithoutFault
              /\ arg.failure_probability > FAILURE_PROBA_THRESHOLD
              /\ arg.failure_probability <= 70
              /\ arg.rul_estimate >= 120
        /\ dec.action = "monitor" =>
              get_maintenance_priority(dec) = 5 /\ dec.scheduled_time = None

\* C6 witness: a monitor decision at the smallest adequate RUL.
C6_Witness ==
    /\ Decided
    /\ dec.action = "monitor"
    /\ arg.rul_estimate = 120

\* C7: the decision is normal exactly when the anomaly-without-fault rule does
\* not match, probability <= FAILURE_PROBA_THRESHOLD and RUL >= 60; a normal
\* decision has priority 6 and no scheduled time.
C7_NormalExactly ==
    Decided =>
        /\ dec.action = "normal" <=>
              /\ ~AnomalyWithoutFault
              /\ arg.failure_probability <= FAILURE_PROBA_THRESHOLD
              /\ arg.rul_estimate >= 60
        /\ dec.action = "normal" =>
              get_maintenance_priority(dec) = 6 /\ dec.scheduled_time = None

\* C7 witness: a normal decision with the probability on the threshold and the
\* RUL on the edge of the low-RUL fallback.
C7_Witness ==
    /\ Decided
    /\ dec.action = "normal"
    /\ arg.failure_probability = FAILURE_PROBA_THRESHOLD
    /\ arg.rul_estimate = 60

\* C8: get_maintenance_priority maps the six actions one-to-one onto the ranks
\* critical_immediate=1, schedule_urgent=2, investigate=3, schedule_soon=4,
\* monitor=5, normal=6; every record process_row appended carries the rank of its
\* action, so its priority is <= 2 exactly for critical_immediate and
\* schedule_urgent.
C8_PriorityIsRankOfAction ==
    LET rank == [a \in MaintenanceAction |->
                    CASE a = "critical_immediate" -> 1
                      [] a = "schedule_urgent" -> 2
                      [] a = "investigate" -> 3
                      [] a = "schedule_soon" -> 4
                      [] a = "monitor" -> 5
                      [] a = "normal" -> 6]
    IN  /\ \A a \in MaintenanceAction :
              get_maintenance_priority([action |-> a]) = rank[a]
        /\ \A a, b \in MaintenanceAction :
              get_maintenance_priority([action |-> a])
                  = get_maintenance_priority([action |-> b]) => a = b
        /\ \A i \in DOMAIN buffer :
              /\ buffer[i].maintenance_action \in MaintenanceAction
              /\ buffer[i].maintenance_priority = rank[buffer[i].maintenance_action]
              /\ buffer[i].maintenance_priority <= 2 <=>
                    buffer[i].maintenance_action
                        \in {"critical_immediate", "schedule_urgent"}

\* C8 witness: a full buffer holding an investigate record followed by a
\* schedule_urgent record.
C8_Witness ==
    /\ Len(buffer) = maxlen /\ maxlen >= 2
    /\ buffer[1].maintenance_action = "investigate"
    /\ buffer[1].maintenance_priority = 3
    /\ buffer[2].maintenance_action = "schedule_urgent"
    /\ buffer[2].maintenance_priority = 2

\* C9: the expected cost of every decision is >= 0, for every probability in
\* [0,1], every RUL (negative ones too), every anomaly score, flag and failure
\* mode.
C9_CostNonNegative == Decided => dec.expected_cost >= 0

\* C9 witness: a decision on a negative RUL and a negative anomaly score at
\* probability 0.
C9_Witness ==
    /\ Decided
    /\ arg.rul_estimate < 0 /\ arg.anomaly_score < 0 /\ arg.failure_probability = 0
    /\ dec.expected_cost > 0

C11_ScheduledTimeByAction ==
    Decided =>
        /\ dec.scheduled_time = None <=> dec.action \in {"monitor", "normal"}
        /\ dec.action = "critical_immediate" =>
              dec.scheduled_time = Some(arg.current_time)
        /\ dec.action = "investigate" =>
              dec.scheduled_time = Some(arg.current_time + 120)
        /\ dec.action \in {"schedule_urgent", "schedule_soon"} =>
              dec.scheduled_time # None /\ dec.scheduled_time[1] > arg.current_time

\* C11 witness: an investigate decision made at a current_time other than 0,
\* scheduled two hours later.
C11_Witness ==
    /\ Decided
    /\ arg.current_time = 1
    /\ dec.action = "investigate"
    /\ dec.scheduled_time = Some(121)

\* C12: the schedule delay is RUL - RUL_SAFETY_MARGIN clamped to [30, 240] for
\* schedule_urgent, max(RUL - RUL_SAFETY_MARGIN, 60) for the probability-based
\* schedule_soon and max(RUL - RUL_SAFETY_MARGIN, 30) for the low-RUL
\* schedule_soon; it is never below 30 minutes.
C12_ScheduleDelay ==
    LET delay == dec.scheduled_time[1] - arg.current_time
        slack == arg.rul_estimate - RUL_SAFETY_MARGIN
        clamp(x, lo, hi) == IF x < lo THEN lo ELSE IF x > hi THEN hi ELSE x
        floor(x, lo) == IF x < lo THEN lo ELSE x
    IN  Decided /\ dec.action \in {"schedule_urgent", "schedule_soon"} =>
            /\ dec.scheduled_time # None
            /\ dec.action = "schedule_urgent" => delay = clamp(slack, 30, 240)
            /\ dec.action = "schedule_soon"
                  /\ arg.failure_probability > FAILURE_PROBA_THRESHOLD =>
                      delay = floor(slack, 60)
            /\ dec.action = "schedule_soon"
                  /\ arg.failure_probability <= FAILURE_PROBA_THRESHOLD =>
                      delay = floor(slack, 30)
            /\ delay >= 30

\* C12 witness: a schedule_urgent decision whose delay is above the lower clamp
\* (RUL 55, delay 35).
C12_Witness ==
    /\ Decided
    /\ dec.action = "schedule_urgent"
    /\ arg.rul_estimate = 55
    /\ dec.scheduled_time = Some(arg.current_time + 35)

\* C13: the confidence of every decision lies in [0,1], for every probability
\* in [0,1], every RUL, every anomaly score (negative ones too) and either
\* anomaly flag.
C13_ConfidenceInUnitInterval ==
    Decided => dec.confidence >= 0 /\ dec.confidence <= 3000

\* C14: every successful process_row(row, idx) appends exactly one record to
\* the buffer, evicting the oldest one when the buffer is full; that record is
\* the newest buffer entry, it has the field values of the returned
\* RealtimeOutput, and its row_index is the idx the caller passed, whatever
\* that is (repeated, out of order, negative).
C14_ProcessRowAppendsOutput ==
    [][/\ out' # None
       /\ args' # None
       /\ buffer' = IF Len(buffer) < maxlen
                      THEN buffer \o <<out'[1]>>
                      ELSE SubSeq(buffer, 2, Len(buffer)) \o <<out'[1]>>
       /\ buffer'[Len(buffer')] = out'[1]
       /\ out'[1].row_index = args'[1].idx
       /\ out'[1].raw_row = args'[1].row]_vars

\* C14 witness: a full buffer after a call with a negative index that came
\* after a call with index 0, and after a call that repeated an index.
C14_Witness ==
    /\ out # None
    /\ args # None
    /\ args[1].idx = -1
    /\ Len(buffer) = maxlen
    /\ buffer[Len(buffer)] = out[1]
    /\ buffer[Len(buffer)].row_index = -1
    /\ buffer[Len(buffer) - 1].row_index = 0

\* C16: latest(n) returns the most recent min(n, size) records in insertion
\* order, the empty list when n <= 0, and leaves the buffer as it was.
C16_LatestReturnsNewest ==
    [][<<args, latest_result>>' # <<args, latest_result>> =>
          LET n == args'[1].n
              returned == latest_result'[1]
              k == IF n < Len(buffer) THEN n ELSE Len(buffer)
          IN  /\ buffer' = buffer
              /\ n <= 0 => returned = <<>>
              /\ n > 0 =>
                    /\ Len(returned) = k
                    /\ \A i \in 1..k : returned[i] = buffer[Len(buffer) - k + i]]_vars

\* C16 witness: latest(2) on a buffer of three items returned the last two, and
\* the three are still there.
C16_Witness ==
    /\ latest_result # None
    /\ args = Some([n |-> 2])
    /\ Len(buffer) = 3
    /\ latest_result[1] = <<buffer[2], buffer[3]>>

\* A process_row call made by run_forever has begun and has not returned.
InFlight == pc \in {Steps[i] : i \in 1..Len(Steps)}
Failed == pc \in {"process_row_raised", "raised"}

\* C15: when the feature build or any model adapter inside process_row fails,
\* the call fails and the buffer is exactly as it was before the call: no
\* partial record has been appended, whichever call failed.
C15_FailureLeavesBuffer ==
    /\ InFlight => buffer = entry_buffer
    /\ Failed =>
          /\ error # None
          /\ error[1] \in FallibleSteps
          /\ buffer = entry_buffer
          /\ \A i \in 1..Len(buffer) : buffer[i].row_index # frame.idx

\* C15 witness: the fifth adapter call failed, after four had returned, on a
\* buffer that held a record.
C15_Witness ==
    /\ pc = "process_row_raised"
    /\ error = Some("predict_rul")
    /\ frame.failure_mode_confidence # None
    /\ Len(entry_buffer) = 1
    /\ buffer = entry_buffer

\* C17: within every process_row call the policy is invoked only after the
\* anomaly score, the failure probability, the failure mode and its
\* confidence, the RUL and the energy estimate have been obtained, each from
\* the one feature view built from the row; no adapter is skipped, and the
\* record is appended only when the policy's decision exists.
C17_ScoresBeforePolicy ==
    (InFlight /\ (pc \in {"optimize_maintenance_decision", "buffer.append"}
                    \/ frame.decision # None)) =>
        /\ frame.X = Some(build_single_row_feature_df(frame.row))
        /\ [i \in 1..Len(frame.calls) |-> frame.calls[i].adapter] =
              <<"compute_anomaly_score", "failure_probability", "predict_failure_mode",
                "predict_failure_mode_proba", "predict_rul", "predict_energy">>
        /\ \A i \in 1..Len(frame.calls) : frame.calls[i].X = frame.X
        /\ frame.anomaly_score # None
        /\ frame.failure_proba # None
        /\ frame.failure_mode # None
        /\ frame.failure_mode_confidence # None
        /\ frame.rul_estimate # None
        /\ frame.energy_estimate # None
        /\ pc = "buffer.append" => frame.decision # None

\* C17 witness: a call about to append, its decision made from the scores.
C17_Witness ==
    /\ pc = "buffer.append"
    /\ Len(frame.calls) = 6
    /\ frame.decision # None
    /\ frame.decision[1].action = "critical_immediate"
    /\ frame.failure_proba = Some(85)

\* C18: in run_forever the k-th observation pulled from the source, k counted
\* from 0, is processed with row_index k: the counter starts at 0, grows by 1
\* with each observation and is not reset when the looping source wraps
\* around, so the row_index values in the buffer are consecutive and strictly
\* increasing.
C18_RowIndexCountsObservations ==
    /\ enumerate_count = Len(pulled)
    /\ (InFlight \/ Failed) => frame.idx = Len(pulled) - 1
    /\ \A k \in 1..Len(processed) : processed[k].idx = k - 1
    /\ \A k \in 1..Len(processed) : processed[k].pos = pulled[k]
    /\ \A i \in 1..Len(buffer) :
          buffer[i].row_index = Len(processed) - Len(buffer) + i - 1
    /\ \A i \in 1..(Len(buffer) - 1) :
          buffer[i + 1].row_index = buffer[i].row_index + 1

\* C18 witness: the source has wrapped around, and the first row of its second
\* pass is in the buffer with the index that continues the count.
C18_Witness ==
    /\ Len(pulled) = Len(Dataset) + 1
    /\ pc = "next"
    /\ buffer[Len(buffer)].row_index = Len(Dataset)
    /\ buffer[Len(buffer)].raw_row = Dataset[1]
    /\ buffer[Len(buffer) - 1].row_index = Len(Dataset) - 1

C20_FailureIsFatal ==
    /\ [](error # None =>
            /\ Failed
            /\ Len(pulled) = frame.idx + 1
            /\ Len(processed) = frame.idx
            /\ Len(buffer) = Min(frame.idx, maxlen)
            /\ \A i \in 1..Len(buffer) :
                  buffer[i].row_index = frame.idx - Len(buffer) + i - 1)
    /\ [][pc # "raised"]_vars
    /\ [][pc = "process_row_raised" => pc' = "raised"]_vars

\* C20 witness: run_forever ended by the error of the third observation, the
\* records of the first two in the buffer.
C20_Witness ==
    /\ pc = "raised"
    /\ error # None
    /\ frame.idx = 2
    /\ Len(buffer) = 2
    /\ buffer[1].row_index = 0
    /\ buffer[2].row_index = 1

\* C29: for every record produced by process_row the flags agree with the
\* policy: anomaly_flag is set exactly when anomaly_score >=
\* ANOMALY_SCORE_THRESHOLD, failure_flag exactly when the failure probability
\* >= FAILURE_PROBA_THRESHOLD, and a record whose failure_flag is set does not
\* have the action normal.
C29_FlagsAgreeWithPolicy ==
    \A i \in 1..Len(buffer) :
        /\ buffer[i].anomaly_flag <=> buffer[i].anomaly_score >= ANOMALY_SCORE_THRESHOLD
        /\ buffer[i].failure_flag <=> buffer[i].failure_proba >= FAILURE_PROBA_THRESHOLD
        /\ buffer[i].failure_flag => buffer[i].maintenance_action # "normal"

\* C30: for every schedule_urgent or schedule_soon decision the schedule delay
\* does not exceed the RUL estimate.
C30_ScheduledBeforeEndOfLife ==
    (Decided /\ dec.action \in {"schedule_urgent", "schedule_soon"}) =>
        dec.scheduled_time[1] - arg.current_time <= arg.rul_estimate

C22_FeatureViewStripsLabels ==
    feature_view # None =>
        LET row == args[1].row
            X == feature_view[1]
        IN  /\ DOMAIN X \cap LabelCols = {}
            /\ \A c \in DOMAIN row \ LabelCols : c \in DOMAIN X /\ X[c] = row[c]

\* C23: building the feature view from an observation that lacks a field does
\* not fail, and the missing field is in the feature view with the value 0.
C23_MissingFieldDefaultsToZero ==
    feature_view # None =>
        LET row == args[1].row
            X == feature_view[1]
        IN  \A c \in PredictiveCols \ DOMAIN row : c \in DOMAIN X /\ X[c] = 0

\* C24: a StreamSimulator with loop_forever=False yields every row of its
\* dataset exactly once in file order and then ends by exhaustion; with
\* loop_forever=True it yields the rows in file order cyclically, the first
\* row again after the last, and never ends.
C24_IterationOrder ==
    /\ [](\A k \in 1..Len(yielded) :
            Len(iter_df) > 0 /\ yielded[k] = iter_df[((k - 1) % Len(iter_df)) + 1])
    /\ [](~loop_forever => Len(yielded) <= Len(iter_df))
    /\ [](exhausted => ~loop_forever /\ yielded = iter_df)
    /\ (~loop_forever) ~> exhausted
    /\ [](loop_forever => ~exhausted)

\* C24 witness: a looping iterator over two different rows has yielded both
\* and then the first one again.
C24_Witness ==
    /\ loop_forever
    /\ Len(iter_df) = 2
    /\ iter_df[1] # iter_df[2]
    /\ yielded = <<iter_df[1], iter_df[2], iter_df[1]>>

\* C25: when two callers run process_row concurrently on one pipeline, under
\* every interleaving the buffer has at most capacity records and holds each
\* completed call's record exactly once, none lost and none duplicated, in the
\* order in which the appends took effect (the oldest evicted first).
C25_ConcurrentAppendsKeepOrder ==
    LET n == Len(effects)
        kept == IF n < maxlen THEN n ELSE maxlen
        returning == {t \in DOMAIN threads : threads[t].pc = "return"}
    IN  /\ Len(buffer) <= maxlen
        /\ buffer = [i \in 1..kept |-> effects[n - kept + i]]
        /\ \A i \in 1..Len(completed) :
              Cardinality({k \in 1..n : effects[k] = completed[i]}) = 1
        /\ n = Len(completed) + Cardinality(returning)

\* C25 witness: both callers are about to append at once, on a full buffer.
C25_Witness ==
    /\ threads # <<>>
    /\ \A t \in Callers : threads[t].pc = "append"
    /\ Len(buffer) = maxlen
    /\ Len(completed) = 2


(***************************************************************************)
(* Dashboard properties.                                                   *)
(***************************************************************************)
resolved_rows_now ==
    {session_state.resolved_critical_rows[k] :
        k \in DOMAIN session_state.resolved_critical_rows}

\* The positions in the buffer of the critical records not marked as fixed.
UnresolvedInBuffer == unresolved_critical(buffer, resolved_rows_now)

RowsRemain == session_state.stream_pos < Len(session_state.stream_df)

RowsProcessed == \E k \in DOMAIN batch_calls : batch_calls[k].returned > 0

AllMarkedFixed == session_state.stream_paused /\ UnresolvedInBuffer = {}

\* C27: (1) once every unresolved critical alert is marked as fixed and the
\* page keeps refreshing, stream_paused becomes false; (2) with rows remaining,
\* and unless auto-run is switched off, a page run then processes rows again;
\* (3) an alert marked as fixed never pauses the stream again: a page run
\* leaves stream_paused set only if the buffer then holds a critical record
\* that was not marked as fixed when the run started.
C27_ResumesAfterFix ==
    /\ AllMarkedFixed ~> ~session_state.stream_paused
    /\ (AllMarkedFixed /\ RowsRemain /\ session_state.auto_run)
          ~> (RowsProcessed \/ ~session_state.auto_run)
    /\ [][session_state'.stream_paused =>
            unresolved_critical(buffer', resolved_rows_now) # {}]_vars

\* An alert was marked as fixed and a later page run processed rows again.
C27_Witness ==
    \E k \in resolved_rows_now :
        /\ batch_calls # <<>>
        /\ batch_calls[1].returned > 0
        /\ batch_calls[1].pos > k


\* What C28 says of one logged process_batch call.
BatchCallAsSpecified(c) ==
    /\ c.returned = Max(0, Min(c.batch_size, c.length - c.pos))
    /\ c.idxs = [i \in 1..c.returned |-> c.pos + i - 1]
    /\ c.end_pos = c.pos + c.returned
    /\ c.pos >= c.length => c.returned = 0 /\ c.same

====
